---- MODULE Spec2Model ----
(***************************************************************************)
(* The per-device state cache of homebridge-sinope and the two adapters    *)
(* built on it (SinopeAccessory, SinopeSwitchAccessory) in                 *)
(* src/platformAccessory.ts.                                               *)
(*                                                                         *)
(* One adapter instance is modelled.  JavaScript runs every handler to     *)
(* completion between two awaits of an outbound vendor call, so one action *)
(* of the model is one such segment: the invocation of a handler up to its *)
(* first pending vendor call (or its callback), the completion of a        *)
(* fetchDevice / updateDevice call up to the next pending vendor call of   *)
(* every handler it resumes, a timer of the lock firing, or the clock      *)
(* advancing.  The clock is read as currentEpoch() reads it, in whole      *)
(* epoch seconds; the code compares it with two thresholds only (the 5 s   *)
(* of the lock's timer and the 10 s of the cache's validity), and the      *)
(* model observes it every TickStep seconds.                               *)
(***************************************************************************)
EXTENDS Integers, Sequences, FiniteSets, TLC

\* ------------------------------------------------------------------ bounds
\* handler invocations that are followed (each slot is one invocation)
NumCalls == 2
\* the clock runs from 1 to MaxTime epoch seconds
MaxTime == 11
\* the seconds between two instants at which the model looks at the clock
TickStep == 5

\* --------------------------------------------------------- program constants
\* updateState: validUntil = currentEpoch() + 10
TTL == 10
\* new AsyncLock({ timeout: 5000 }), in epoch seconds
LockTimeout == 5
\* no call holds the lock
NoHolder == 0

Calls == 1..NumCalls

\* an optional value: {} is undefined (absent), {v} is the value v
Undefined == {}
Some(v) == {v}
Get(o) == CHOOSE v \in o : TRUE

\* SinopeDeviceState: the snapshots the vendor client may return
Snapshot(rt, sp, out, mode, oo) ==
  [roomTemperature |-> rt, roomSetpoint |-> sp, outputPercentDisplay |-> out,
   setpointMode |-> mode, onOff |-> oo]

Snapshots ==
  { Snapshot(Some(20), Some(21), Some(5), Some("auto"), Undefined),
    Snapshot(Some(22), Undefined, Some(0), Some("off"), Undefined),
    Snapshot(Some(21), Some(19), Undefined, Some("manual"), Undefined),
    Snapshot(Some(20), Some(19), Some(-1), Undefined, Undefined),
    Snapshot(Undefined, Undefined, Undefined, Undefined, Some("on")),
    Snapshot(Undefined, Undefined, Undefined, Undefined, Some("off")) }

\* what a rejected fetchDevice carries: no snapshot
NoSnapshot == [none |-> TRUE]

\* SinopeDeviceStateRequest: a sparse patch
Patch(sp, mode, oo) == [roomSetpoint |-> sp, setpointMode |-> mode, onOff |-> oo]
NoPatch == Patch(Undefined, Undefined, Undefined)

VARIABLES
  kind,        \* "thermostat" (SinopeAccessory) or "switch" (SinopeSwitchAccessory)
  state,       \* this.state: the cached fields and validUntil
  now,         \* the wall clock, in epoch seconds
  ctor,        \* the constructor's unlocked updateState(): "fetching" or "done"
  lockHolder,  \* the call whose getState body runs inside the lock, or NoHolder
  queue,       \* the calls waiting for the lock, first come first
  calls        \* per invocation: its handler, its position and what it did

vars == <<kind, state, now, ctor, lockHolder, queue, calls>>

\* class State
InitState ==
  [currentTemperature |-> 0,
   targetTemperature |-> Some(0),
   currentHeatingCoolingState |-> 0,
   targetHeatingCoolingState |-> 0,
   onOff |-> Undefined,
   validUntil |-> 0]

\* an invocation slot before its handler is invoked.  op, value, pc: the handler,
\* the value it keeps and where it stands; enq: when it queued on the lock; the rest
\* records what the invocation did: the callback it made (cbCount, cbErr, cbValue,
\* staleAtCallback: validUntil was not in the future at the callback), the vendor
\* calls it issued (fetches, updates, patch, updateResult), the target mode it read
\* after getState (seenTarget), how the refresh it queued behind ended (waitedOn)
\* and whether validUntil was in the future when it was invoked (validAtInvoke)
IdleCall ==
  [op |-> "none", value |-> 0, pc |-> "idle", enq |-> 0,
   cbCount |-> 0, cbErr |-> "none", cbValue |-> Undefined,
   fetches |-> 0, updates |-> 0, patch |-> NoPatch, updateResult |-> "none",
   seenTarget |-> Undefined, waitedOn |-> "none", staleAtCallback |-> FALSE,
   validAtInvoke |-> FALSE]

Init ==
  /\ kind \in {"thermostat", "switch"}
  /\ state = InitState
  /\ now = 1
  /\ ctor = "fetching"
  /\ lockHolder = NoHolder
  /\ queue = <<>>
  /\ calls = [c \in Calls |-> IdleCall]

\* ------------------------------------------------------------ pure helpers
ThermostatReads ==
  {"handleCurrentHeatingCoolingStateGet", "handleTargetHeatingCoolingStateGet",
   "handleCurrentTemperatureGet", "handleTargetTemperatureGet"}

ReadOps == ThermostatReads \cup {"getOnCharacteristicHandler"}

WriteOps ==
  {"handleTargetHeatingCoolingStateSet", "handleTargetTemperatureSet",
   "handleTemperatureDisplayUnitsSet", "setOnCharacteristicHandler"}

\* the CharacteristicValue inputs followed: off, heat and auto for the target mode
ModeValues == {0, 1, 3}
TemperatureValues == {19}
OnValues == {0, 1}
UnitValues == {0, 1}

\* isValid with >= for >: a cache expiring this very second passes for valid
IsValidNonStrict(timestamp, t) == timestamp >= t

\* isValid(timestamp) with currentEpoch() = t
IsValid(timestamp, t) == timestamp > t

\* the mapping with >= for >: an output of 0 percent counts as heating
CurrentModeNonNegative(out) == IF out # Undefined /\ Get(out) >= 0 THEN 1 ELSE 0

\* updateState: outputPercentDisplay -> currentHeatingCoolingState
CurrentModeOf(out) == IF out # Undefined /\ Get(out) > 0 THEN 1 ELSE 0

\* the mapping with an absent setpointMode read as "off"
TargetModeAbsentIsOff(mode) ==
  IF mode = Some("auto") THEN 3
  ELSE IF mode = Some("off") \/ mode = Undefined THEN 0
  ELSE 1

\* updateState: setpointMode -> targetHeatingCoolingState
TargetModeOf(mode) ==
  IF mode = Some("auto") THEN 3
  ELSE IF mode = Some("off") THEN 0
  ELSE 1

\* updateState: onOff string -> boolean
OnOffOf(oo) == Some(oo = Some("on"))

\* updateState keeping the cached setpoint when the snapshot carries none
ThermostatUpdateStateKeepsSetpoint(st, s, t) ==
  LET v == [st EXCEPT !.validUntil = t + TTL] IN
  IF s.roomTemperature # Undefined
  THEN [v EXCEPT !.currentTemperature = Get(s.roomTemperature),
                 !.targetTemperature =
                    IF s.roomSetpoint # Undefined THEN s.roomSetpoint ELSE @,
                 !.currentHeatingCoolingState = CurrentModeOf(s.outputPercentDisplay),
                 !.targetHeatingCoolingState = TargetModeOf(s.setpointMode)]
  ELSE IF s.onOff # Undefined
  THEN [v EXCEPT !.onOff = OnOffOf(s.onOff)]
  ELSE v

\* SinopeAccessory.updateState, the try block after a successful fetch at time t
ThermostatUpdateState(st, s, t) ==
  LET v == [st EXCEPT !.validUntil = t + TTL] IN
  IF s.roomTemperature # Undefined
  THEN [v EXCEPT !.currentTemperature = Get(s.roomTemperature),
                 !.targetTemperature = s.roomSetpoint,
                 !.currentHeatingCoolingState = CurrentModeOf(s.outputPercentDisplay),
                 !.targetHeatingCoolingState = TargetModeOf(s.setpointMode)]
  ELSE IF s.onOff # Undefined
  THEN [v EXCEPT !.onOff = OnOffOf(s.onOff)]
  ELSE v

\* SinopeSwitchAccessory.updateState, the try block after a successful fetch
SwitchUpdateState(st, s, t) ==
  LET v == [st EXCEPT !.validUntil = t + TTL] IN
  IF s.onOff # Undefined
  THEN [v EXCEPT !.onOff = OnOffOf(s.onOff)]
  ELSE v

\* updateState when fetchDevice resolved with snapshot s
UpdateStateOk(k, st, s, t) ==
  IF k = "thermostat" THEN ThermostatUpdateState(st, s, t)
  ELSE SwitchUpdateState(st, s, t)

\* updateState with validUntil extended ahead of the fetch: a failure keeps it
UpdateStateFailedExtends(st, t) == [st EXCEPT !.validUntil = t + TTL]

\* a failed fetch that invalidates the cache
UpdateStateFailedInvalidates(st, t) == [st EXCEPT !.validUntil = 0]

\* updateState when fetchDevice rejected: the catch block only logs
UpdateStateFailed(st, t) == st

\* getState without the validity check: every call refreshes
MustRefreshAlways(st, t) == TRUE

\* getState inside the lock: refresh unless the cache is valid
MustRefresh(st, t) == ~IsValid(st.validUntil, t)

\* handleTargetTemperatureSet reading the state first, like the target-mode write
CallsGetStateOnTemperatureSet(op) ==
  op \in ReadOps \cup {"handleTargetHeatingCoolingStateSet", "handleTargetTemperatureSet"}

\* the handlers that begin with `await this.getState()`
CallsGetState(op) == op \in ReadOps \cup {"handleTargetHeatingCoolingStateSet"}

\* the value a read handler hands to its callback
ReadValue(op, st) ==
  CASE op = "handleCurrentHeatingCoolingStateGet" -> Some(st.currentHeatingCoolingState)
    [] op = "handleTargetHeatingCoolingStateGet" -> Some(st.targetHeatingCoolingState)
    [] op = "handleCurrentTemperatureGet" -> Some(st.currentTemperature)
    [] op = "handleTargetTemperatureGet" -> st.targetTemperature
    [] op = "getOnCharacteristicHandler" -> st.onOff

\* the target-mode write without the "only when off" rule
SetpointModeAlwaysSent(mode, target) ==
  IF mode = 0 THEN Some("off") ELSE Some("auto")

\* handleTargetHeatingCoolingStateSet: the setpointMode to send, Undefined for none
SetpointModeFor(mode, target) ==
  IF mode = 0 THEN Some("off")
  ELSE IF mode # 0 /\ target = 0 THEN Some("auto")
  ELSE Undefined

\* a switch write that sends the opposite word
OnOffForInverted(value) == IF value # 0 THEN "off" ELSE "on"

\* setOnCharacteristicHandler: value ? "on" : "off"
OnOffFor(value) == IF value # 0 THEN "on" ELSE "off"

\* a write handler that reports the failure of updateDevice to its caller
WriteCallbackErrorPropagated(ok) == IF ok THEN "null" ELSE "error"

\* the error a write handler hands to its callback after updateDevice settled
WriteCallbackError(ok) == "null"

\* callback(null, value) of a read handler
ReadCallback(rec, st, t) ==
  [rec EXCEPT !.pc = "done", !.cbCount = @ + 1, !.cbErr = "null",
              !.cbValue = ReadValue(rec.op, st),
              !.staleAtCallback = (st.validUntil <= t)]

\* a handler awaits updateDevice(id, p)
AwaitUpdate(rec, p) ==
  [rec EXCEPT !.pc = "updating", !.updates = @ + 1, !.patch = p]

\* the handler's code after `await this.getState()` returned st
AfterGetState(rec, st, t) ==
  IF rec.op \in ReadOps THEN ReadCallback(rec, st, t)
  ELSE LET seen == \* `mode === 0` is decided before the cached target mode is read
             IF rec.value = 0 THEN rec
             ELSE [rec EXCEPT !.seenTarget = Some(st.targetHeatingCoolingState)]
           m == SetpointModeFor(rec.value, st.targetHeatingCoolingState)
       IN IF m # Undefined
          THEN AwaitUpdate(seen, Patch(Undefined, m, Undefined))
          ELSE [seen EXCEPT !.pc = "done", !.cbCount = @ + 1, !.cbErr = "null"]

\* the lock hands itself to the calls queued on it, in order, until one of them
\* has to refresh; res is the outcome of the refresh they waited on
RECURSIVE RunQueue(_, _, _, _, _)
RunQueue(cs, q, st, t, res) ==
  IF q = <<>> THEN [calls |-> cs, queue |-> q, holder |-> NoHolder]
  ELSE LET c == Head(q)
           rec == [cs[c] EXCEPT !.waitedOn = res, !.enq = 0]
       IN IF MustRefresh(st, t)
          THEN [calls |-> [cs EXCEPT ![c] = [rec EXCEPT !.pc = "fetching", !.fetches = @ + 1]],
                queue |-> Tail(q), holder |-> c]
          ELSE RunQueue([cs EXCEPT ![c] = AfterGetState(rec, st, t)], Tail(q), st, t, res)

Remove(q, c) == SelectSeq(q, LAMBDA x : x # c)

\* ----------------------------------------------------------------- actions
\* slots are used in order: the next invocation takes the lowest idle slot
Fresh(c) == calls[c].pc = "idle" /\ \A d \in Calls : d < c => calls[d].pc # "idle"

\* `await this.getState()` at the head of a handler: lock.acquire runs the body at
\* once when the lock is free, and queues the call (starting its timer) otherwise
EnterGetState(c, op, arg) ==
  LET rec == [IdleCall EXCEPT !.op = op, !.value = arg,
                              !.validAtInvoke = (state.validUntil > now)] IN
  /\ IF lockHolder # NoHolder
     THEN /\ calls' = [calls EXCEPT ![c] = [rec EXCEPT !.pc = "waiting", !.enq = now]]
          /\ queue' = Append(queue, c)
          /\ lockHolder' = lockHolder
     ELSE IF MustRefresh(state, now)
     THEN /\ calls' = [calls EXCEPT ![c] = [rec EXCEPT !.pc = "fetching", !.fetches = @ + 1]]
          /\ lockHolder' = c
          /\ queue' = queue
     ELSE /\ calls' = [calls EXCEPT ![c] = AfterGetState(rec, state, now)]
          /\ UNCHANGED <<lockHolder, queue>>
  /\ UNCHANGED <<kind, state, now, ctor>>

\* a handler that goes straight to updateDevice
EnterUpdate(c, op, arg, p) ==
  /\ calls' = [calls EXCEPT ![c] = AwaitUpdate([IdleCall EXCEPT !.op = op, !.value = arg], p)]
  /\ UNCHANGED <<kind, state, now, ctor, lockHolder, queue>>

Invoke(c, op, arg) ==
  IF CallsGetState(op) THEN EnterGetState(c, op, arg)
  ELSE EnterUpdate(c, op, arg,
         IF op = "handleTargetTemperatureSet" THEN Patch(Some(arg), Undefined, Undefined)
         ELSE Patch(Undefined, Undefined, Some(OnOffFor(arg))))

handleCurrentHeatingCoolingStateGet(c) ==
  /\ kind = "thermostat" /\ Fresh(c)
  /\ Invoke(c, "handleCurrentHeatingCoolingStateGet", 0)

handleTargetHeatingCoolingStateGet(c) ==
  /\ kind = "thermostat" /\ Fresh(c)
  /\ Invoke(c, "handleTargetHeatingCoolingStateGet", 0)

handleTargetHeatingCoolingStateSet(c, value) ==
  /\ kind = "thermostat" /\ Fresh(c)
  /\ Invoke(c, "handleTargetHeatingCoolingStateSet", value)

handleCurrentTemperatureGet(c) ==
  /\ kind = "thermostat" /\ Fresh(c)
  /\ Invoke(c, "handleCurrentTemperatureGet", 0)

handleTargetTemperatureGet(c) ==
  /\ kind = "thermostat" /\ Fresh(c)
  /\ Invoke(c, "handleTargetTemperatureGet", 0)

handleTargetTemperatureSet(c, value) ==
  /\ kind = "thermostat" /\ Fresh(c)
  /\ Invoke(c, "handleTargetTemperatureSet", value)

\* callback(null, 1): no cache, no vendor call
handleTemperatureDisplayUnitsGet(c) ==
  /\ kind = "thermostat" /\ Fresh(c)
  /\ calls' = [calls EXCEPT ![c] =
       [IdleCall EXCEPT !.op = "handleTemperatureDisplayUnitsGet", !.pc = "done",
                        !.cbCount = 1, !.cbErr = "null", !.cbValue = Some(1)]]
  /\ UNCHANGED <<kind, state, now, ctor, lockHolder, queue>>

\* callback(null): the value is dropped
handleTemperatureDisplayUnitsSet(c, value) ==
  /\ kind = "thermostat" /\ Fresh(c)
  /\ calls' = [calls EXCEPT ![c] =
       [IdleCall EXCEPT !.op = "handleTemperatureDisplayUnitsSet",
                        !.pc = "done", !.cbCount = 1, !.cbErr = "null"]]
  /\ UNCHANGED <<kind, state, now, ctor, lockHolder, queue>>

getOnCharacteristicHandler(c) ==
  /\ kind = "switch" /\ Fresh(c)
  /\ Invoke(c, "getOnCharacteristicHandler", 0)

setOnCharacteristicHandler(c, value) ==
  /\ kind = "switch" /\ Fresh(c)
  /\ Invoke(c, "setOnCharacteristicHandler", value)

\* the fetchDevice call of the lock holder settles: updateState finishes, getState
\* returns, the holder's handler goes on, and the lock passes down the queue
FetchSettled(ok, s) ==
  /\ lockHolder # NoHolder
  /\ calls[lockHolder].pc = "fetching"
  /\ LET st == IF ok THEN UpdateStateOk(kind, state, s, now) ELSE UpdateStateFailed(state, now)
         cs == [calls EXCEPT ![lockHolder] = AfterGetState(@, st, now)]
         r == RunQueue(cs, queue, st, now, IF ok THEN "ok" ELSE "failed")
     IN /\ state' = st
        /\ calls' = r.calls
        /\ queue' = r.queue
        /\ lockHolder' = r.holder
  /\ UNCHANGED <<kind, now, ctor>>

FetchResolved == \E s \in Snapshots : FetchSettled(TRUE, s)

FetchRejected == FetchSettled(FALSE, NoSnapshot)

\* the fetchDevice call of the constructor's updateState(), made outside the lock
CtorFetchSettled(ok, s) ==
  /\ ctor = "fetching"
  /\ ctor' = "done"
  /\ state' = IF ok THEN UpdateStateOk(kind, state, s, now) ELSE UpdateStateFailed(state, now)
  /\ UNCHANGED <<kind, now, lockHolder, queue, calls>>

CtorFetchResolved == \E s \in Snapshots : CtorFetchSettled(TRUE, s)

CtorFetchRejected == CtorFetchSettled(FALSE, NoSnapshot)

\* a write handler that calls updateDevice again after a failure
AfterUpdateRetry(rec, ok) ==
  IF ~ok /\ rec.updates < 2
  THEN [rec EXCEPT !.updates = @ + 1]
  ELSE [rec EXCEPT !.pc = "done", !.cbCount = @ + 1, !.cbErr = WriteCallbackError(ok),
                   !.updateResult = IF ok THEN "ok" ELSE "failed"]

\* the continuation of a write handler after its updateDevice call settled:
\* log the outcome in the try or in the catch, then callback(null)
AfterUpdate(rec, ok) ==
  [rec EXCEPT !.pc = "done", !.cbCount = @ + 1, !.cbErr = WriteCallbackError(ok),
              !.updateResult = IF ok THEN "ok" ELSE "failed"]

\* the updateDevice call of a write handler settles
UpdateSettled(c, ok) ==
  /\ calls[c].pc = "updating"
  /\ calls' = [calls EXCEPT ![c] = AfterUpdate(@, ok)]
  /\ UNCHANGED <<kind, state, now, ctor, lockHolder, queue>>

UpdateResolved == \E c \in Calls : UpdateSettled(c, TRUE)

UpdateRejected == \E c \in Calls : UpdateSettled(c, FALSE)

\* the lock's timer of a queued call fires: acquire rejects, the handler's await
\* throws, and the handler ends without reaching its callback
LockTimedOut(c) ==
  /\ calls[c].pc = "waiting"
  /\ now >= calls[c].enq + LockTimeout
  /\ calls' = [calls EXCEPT ![c].pc = "rejected", ![c].enq = 0]
  /\ queue' = Remove(queue, c)
  /\ UNCHANGED <<kind, state, now, ctor, lockHolder>>

\* time passes; a timer that is due fires before the clock moves on
Tick ==
  /\ now + TickStep <= MaxTime
  /\ \A c \in Calls : calls[c].pc = "waiting" => now < calls[c].enq + LockTimeout
  /\ now' = now + TickStep
  /\ UNCHANGED <<kind, state, ctor, lockHolder, queue, calls>>

Next ==
  \/ \E c \in Calls : handleCurrentHeatingCoolingStateGet(c)
  \/ \E c \in Calls : handleTargetHeatingCoolingStateGet(c)
  \/ \E c \in Calls, v \in ModeValues : handleTargetHeatingCoolingStateSet(c, v)
  \/ \E c \in Calls : handleCurrentTemperatureGet(c)
  \/ \E c \in Calls : handleTargetTemperatureGet(c)
  \/ \E c \in Calls, v \in TemperatureValues : handleTargetTemperatureSet(c, v)
  \/ \E c \in Calls : handleTemperatureDisplayUnitsGet(c)
  \/ \E c \in Calls, v \in UnitValues : handleTemperatureDisplayUnitsSet(c, v)
  \/ \E c \in Calls : getOnCharacteristicHandler(c)
  \/ \E c \in Calls, v \in OnValues : setOnCharacteristicHandler(c, v)
  \/ FetchResolved
  \/ FetchRejected
  \/ CtorFetchResolved
  \/ CtorFetchRejected
  \/ UpdateResolved
  \/ UpdateRejected
  \/ \E c \in Calls : LockTimedOut(c)
  \/ Tick

Spec == Init /\ [][Next]_vars

\* ================================================================== claims
FetchesInFlight ==
  Cardinality({c \in Calls : calls[c].pc = "fetching"})
    + (IF ctor = "fetching" THEN 1 ELSE 0)

IsReader(c) == calls[c].op \in ReadOps

ModeSet == "handleTargetHeatingCoolingStateSet"

\* the write handlers other than the target-mode write
PlainWriteOps == WriteOps \ {ModeSet}

\* ---------------------------------------------------------------------- C1
\* C1 as stated: a reader that waited on the lock behind a refresh never
\* issues a fetch of its own, so that the readers of one stale episode send
\* exactly one fetchDevice call between them.
C1_WaitersNeverFetch ==
  \A c \in Calls : IsReader(c) /\ calls[c].waitedOn # "none" => calls[c].fetches = 0

\* C1 as amended: when the lock passes to a reader that waited on it, the reader
\* waited behind a holder that issued exactly one fetch; if that refresh
\* succeeded the reader issues no fetch and its callback gets the post-refresh
\* value, as the holder's callback does; if it failed, the reader fetches
\* exactly when the cache is still not valid.
C1_WaitersRecheck ==
  [][\A c \in Calls :
       (IsReader(c) /\ calls[c].pc = "waiting" /\ calls'[c].pc \in {"fetching", "done"}) =>
         /\ lockHolder # NoHolder
         /\ calls[lockHolder].pc = "fetching"
         /\ calls[lockHolder].fetches = 1
         /\ calls'[lockHolder].fetches = 1
         /\ IF calls'[c].waitedOn = "ok"
            THEN /\ state'.validUntil = now + TTL
                 /\ calls'[c].pc = "done"
                 /\ calls'[c].fetches = 0
                 /\ calls'[c].cbCount = 1
                 /\ calls'[c].cbValue = ReadValue(calls[c].op, state')
                 /\ IsReader(lockHolder) =>
                      /\ calls'[lockHolder].pc = "done"
                      /\ calls'[lockHolder].cbValue = ReadValue(calls[lockHolder].op, state')
            ELSE /\ calls'[c].waitedOn = "failed"
                 /\ state' = state
                 /\ (calls'[c].fetches = 1) <=> (state.validUntil <= now)
                 /\ (calls'[c].fetches = 0) <=> (state.validUntil > now)
    ]_vars

\* a reader waited behind a refresh that succeeded and was served without a fetch
C1_Witness ==
  \E c \in Calls :
    /\ IsReader(c) /\ calls[c].waitedOn = "ok"
    /\ calls[c].pc = "done" /\ calls[c].fetches = 0
    /\ \E h \in Calls : h # c /\ IsReader(h) /\ calls[h].fetches = 1 /\ calls[h].pc = "done"

\* ---------------------------------------------------------------------- C2
\* C2: at most one fetchDevice call of the adapter is in flight at any time,
\* the constructor's initial refresh included.
C2_AtMostOneFetchInFlight == FetchesInFlight <= 1

\* ---------------------------------------------------------------------- C3
\* C3: a read handler whose callback is made while validUntil is not strictly
\* in the future has attempted a fetch within that call of getState.
C3_NoStaleServeWithoutAttempt ==
  \A c \in Calls :
    IsReader(c) /\ calls[c].pc = "done" /\ calls[c].staleAtCallback => calls[c].fetches >= 1

\* a read was served from a cache that had expired, after its refresh failed
C3_Witness ==
  \E c \in Calls :
    /\ IsReader(c) /\ calls[c].pc = "done" /\ calls[c].staleAtCallback
    /\ calls[c].fetches = 1
    /\ state.validUntil > 0 /\ state.validUntil <= now

\* ---------------------------------------------------------------------- C4
\* C4: a step in which fetchDevice rejects leaves every cached field and
\* validUntil as they were, and the read handler that triggered the refresh
\* makes its callback once, with a null error and the value cached before.
C4_FetchFailureKeepsCache ==
  [][/\ CtorFetchRejected => state' = state
     /\ FetchRejected =>
          /\ state' = state
          /\ IsReader(lockHolder) =>
               /\ calls'[lockHolder].pc = "done"
               /\ calls'[lockHolder].cbCount = 1
               /\ calls'[lockHolder].cbErr = "null"
               /\ calls'[lockHolder].cbValue = ReadValue(calls[lockHolder].op, state)
    ]_vars

\* a read whose refresh failed was answered with the value cached before it
C4_Witness ==
  \E c \in Calls :
    /\ IsReader(c) /\ calls[c].pc = "done" /\ calls[c].fetches = 1
    /\ calls[c].staleAtCallback /\ calls[c].cbCount = 1 /\ calls[c].cbErr = "null"
    /\ calls[c].cbValue = ReadValue(calls[c].op, InitState)
    /\ ctor = "done" /\ state = InitState

\* ---------------------------------------------------------------------- C5
\* C5: a write handler whose updateDevice call failed still makes its
\* callback, once, with a null error.
C5_WriteFailureSwallowed ==
  \A c \in Calls :
    calls[c].op \in WriteOps /\ calls[c].updateResult = "failed" =>
      calls[c].pc = "done" /\ calls[c].cbCount = 1 /\ calls[c].cbErr = "null"

\* a target-mode write and a target-temperature write failed and were acknowledged
C5_Witness ==
  \E c \in Calls :
    /\ calls[c].op = ModeSet
    /\ calls[c].updateResult = "failed" /\ calls[c].cbErr = "null"
    /\ \E d \in Calls :
         /\ calls[d].op = "handleTargetTemperatureSet"
         /\ calls[d].updateResult = "failed" /\ calls[d].cbErr = "null"

\* ---------------------------------------------------------------------- C6
\* C6: a read handler that queued on the lock behind a refresh is never
\* rejected: it waits for the refresh, however long, and makes its callback.
C6_ReadersNeverRejected ==
  \A c \in Calls : IsReader(c) => calls[c].pc # "rejected"

\* ---------------------------------------------------------------------- C7
\* C7: a target-mode write of 0 that has ended has issued exactly one
\* updateDevice call, with the patch {setpointMode: "off"}.
C7_OffAlwaysSent ==
  \A c \in Calls :
    calls[c].op = ModeSet /\ calls[c].value = 0 /\ calls[c].pc \in {"done", "rejected"} =>
      calls[c].updates = 1 /\ calls[c].patch = Patch(Undefined, Some("off"), Undefined)

\* ---------------------------------------------------------------------- C8
\* C8: a target-mode write of a non-off value that got the state from getState
\* issues exactly one updateDevice call with {setpointMode: "auto"} when the
\* cached target mode it read is 0, and otherwise issues none and acknowledges
\* the write with a null error.
C8_NonOffWrite ==
  \A c \in Calls :
    calls[c].op = ModeSet /\ calls[c].value # 0 /\ calls[c].seenTarget # Undefined =>
      IF calls[c].seenTarget = Some(0)
      THEN /\ calls[c].updates = 1
           /\ calls[c].patch = Patch(Undefined, Some("auto"), Undefined)
      ELSE /\ calls[c].updates = 0
           /\ calls[c].pc = "done" /\ calls[c].cbCount = 1 /\ calls[c].cbErr = "null"

\* one non-off write found the target mode off and sent "auto", another found it
\* on and sent nothing
C8_Witness ==
  \E c, d \in Calls :
    /\ calls[c].op = ModeSet /\ calls[c].value # 0
    /\ calls[c].seenTarget = Some(0) /\ calls[c].updates = 1
    /\ calls[d].op = ModeSet /\ calls[d].value # 0
    /\ calls[d].seenTarget \in {Some(1), Some(3)} /\ calls[d].updates = 0
    /\ calls[d].pc = "done"

\* ---------------------------------------------------------------------- C9
\* C9 as stated: no write handler issues a fetchDevice call.
C9_WritesNeverFetch ==
  \A c \in Calls : calls[c].op \in WriteOps => calls[c].fetches = 0

\* C9 as amended: the target-temperature, on/off and display-units writes issue
\* no fetchDevice call and no step of theirs changes the cache; the cache
\* changes only when a fetch settles: the fetch of a read handler or of the
\* target-mode write inside getState, or the constructor's.
C9_PlainWritesLeaveCache ==
  [][/\ \A c \in Calls : calls'[c].op \in PlainWriteOps => calls'[c].fetches = 0
     /\ state' # state =>
          \/ ctor = "fetching" /\ ctor' = "done"
          \/ /\ lockHolder # NoHolder
             /\ calls[lockHolder].pc = "fetching"
             /\ calls'[lockHolder].pc # "fetching"
             /\ calls[lockHolder].op \in ReadOps \cup {ModeSet}
    ]_vars

\* a target-temperature write failed or succeeded and the cache is as constructed
C9_Witness ==
  \E c \in Calls :
    /\ calls[c].op = "handleTargetTemperatureSet" /\ calls[c].pc = "done"
    /\ calls[c].updates = 1 /\ calls[c].fetches = 0
    /\ ctor = "done" /\ state = InitState

\* --------------------------------------------------------------------- C10
\* C10: in the thermostat adapter, a refresh whose snapshot carries a room
\* temperature leaves targetHeatingCoolingState at 3 for setpointMode "auto",
\* 0 for "off", and 1 for any other or an absent setpointMode.
C10_TargetModeMapping ==
  [][\A s \in Snapshots :
       /\ kind = "thermostat"
       /\ s.roomTemperature # Undefined
       /\ FetchSettled(TRUE, s) \/ CtorFetchSettled(TRUE, s)
       => state'.targetHeatingCoolingState =
            (CASE s.setpointMode = Some("auto") -> 3
               [] s.setpointMode = Some("off") -> 0
               [] OTHER -> 1)
    ]_vars

\* a refresh without a setpointMode has set the target mode to 1
C10_Witness ==
  /\ kind = "thermostat"
  /\ state.validUntil > 0
  /\ state.targetHeatingCoolingState = 1
  /\ state.currentTemperature = 20 /\ state.targetTemperature = Some(19)

\* a step in which a fetchDevice call, of the lock holder or of the constructor,
\* resolved with snapshot s
Refreshed(s) == FetchSettled(TRUE, s) \/ CtorFetchSettled(TRUE, s)

\* --------------------------------------------------------------------- C11
\* C11: in the thermostat adapter, a refresh whose snapshot carries a room
\* temperature leaves currentHeatingCoolingState at 1 when the snapshot's
\* output percent is greater than 0, and at 0 when it is 0, negative or absent.
C11_CurrentModeMapping ==
  [][\A s \in Snapshots :
       /\ kind = "thermostat"
       /\ s.roomTemperature # Undefined
       /\ Refreshed(s)
       => state'.currentHeatingCoolingState =
            (CASE s.outputPercentDisplay = Undefined -> 0
               [] s.outputPercentDisplay = Some(5) -> 1
               [] s.outputPercentDisplay = Some(0) -> 0
               [] s.outputPercentDisplay = Some(-1) -> 0)
    ]_vars

\* a refresh with an output of 5 percent has set the current mode to 1, and a
\* read of it was answered with 1
C11_Witness ==
  /\ kind = "thermostat"
  /\ state.currentHeatingCoolingState = 1
  /\ \E c \in Calls :
       /\ calls[c].op = "handleCurrentHeatingCoolingStateGet"
       /\ calls[c].pc = "done" /\ calls[c].cbValue = Some(1)

\* --------------------------------------------------------------------- C12
\* C12: a refresh whose snapshot carries no room setpoint leaves the cached
\* targetTemperature as it was, and one whose snapshot carries no room
\* temperature leaves the cached currentTemperature as it was.
C12_AbsentFieldsKeepCache ==
  [][\A s \in Snapshots :
       Refreshed(s) =>
         /\ s.roomSetpoint = Undefined => state'.targetTemperature = state.targetTemperature
         /\ s.roomTemperature = Undefined => state'.currentTemperature = state.currentTemperature
    ]_vars

\* --------------------------------------------------------------------- C13
\* C13: a read handler invoked while validUntil is strictly greater than the
\* current epoch second issues no fetchDevice call and is not turned away
\* before it returns the cached value.
C13_ValidReadsNeverFetch ==
  \A c \in Calls :
    IsReader(c) /\ calls[c].validAtInvoke =>
      calls[c].fetches = 0 /\ calls[c].pc # "rejected"

\* --------------------------------------------------------------------- C14
ThermostatFields(st) ==
  <<st.currentTemperature, st.targetTemperature,
    st.currentHeatingCoolingState, st.targetHeatingCoolingState>>

\* the four fields as one thermostat-class snapshot s determines them
FieldsOf(s) ==
  <<Get(s.roomTemperature), s.roomSetpoint,
    CurrentModeOf(s.outputPercentDisplay), TargetModeOf(s.setpointMode)>>

\* C14: in every state, and so wherever a handler reads the cache after getState
\* returned, the four thermostat fields are all the construction defaults or
\* all determined by one single vendor snapshot, never a mix of two.
C14_NoMixedSnapshot ==
  \/ ThermostatFields(state) = ThermostatFields(InitState)
  \/ \E s \in Snapshots :
       s.roomTemperature # Undefined /\ ThermostatFields(state) = FieldsOf(s)

\* two fetches were applied, the constructor's and a reader's, and the cache
\* holds the fields of the snapshot without a setpoint
C14_Witness ==
  /\ kind = "thermostat" /\ ctor = "done"
  /\ state.validUntil > TTL + 1
  /\ ThermostatFields(state) = <<22, Undefined, 0, 0>>
  /\ \E c \in Calls :
       /\ IsReader(c) /\ calls[c].pc = "done"
       /\ calls[c].fetches = 1 /\ ~calls[c].staleAtCallback

\* --------------------------------------------------------------------- C15
\* C15: no retries: one handler invocation issues at most one fetchDevice call
\* and at most one updateDevice call, also when the call failed.
C15_NoRetries ==
  \A c \in Calls : calls[c].fetches <= 1 /\ calls[c].updates <= 1

\* a read whose single fetch failed and a write whose single update failed have
\* both completed
C15_Witness ==
  /\ \E c \in Calls :
       /\ IsReader(c) /\ calls[c].pc = "done"
       /\ calls[c].fetches = 1 /\ calls[c].staleAtCallback
  /\ \E c \in Calls :
       /\ calls[c].op \in WriteOps /\ calls[c].pc = "done"
       /\ calls[c].updates = 1 /\ calls[c].updateResult = "failed"

\* --------------------------------------------------------------------- C16
\* C16: in the switch adapter a write with value v issues exactly one
\* updateDevice call with patch {onOff: "on"} when v is truthy and
\* {onOff: "off"} otherwise; a read calls back with the cached onOff; and after
\* a successful refresh whose snapshot has an onOff field the cached onOff is
\* true exactly when that field equals "on".
C16_SwitchReadWrite ==
  [][/\ \A c \in Calls :
          calls'[c].op = "setOnCharacteristicHandler" =>
            /\ calls'[c].updates = 1
            /\ calls'[c].patch =
                 [roomSetpoint |-> {}, setpointMode |-> {},
                  onOff |-> IF calls'[c].value # 0 THEN {"on"} ELSE {"off"}]
     /\ \A c \in Calls :
          /\ calls'[c].op = "getOnCharacteristicHandler"
          /\ calls[c].pc # "done" /\ calls'[c].pc = "done"
          => calls'[c].cbCount = 1 /\ calls'[c].cbValue = state'.onOff
     /\ \A s \in Snapshots :
          kind = "switch" /\ s.onOff # Undefined /\ Refreshed(s)
          => state'.onOff = {s.onOff = {"on"}}
    ]_vars

\* a truthy write was sent as "on", and a read that refreshed from a snapshot
\* saying "on" called back with true
C16_Witness ==
  /\ kind = "switch"
  /\ \E c \in Calls :
       /\ calls[c].op = "setOnCharacteristicHandler" /\ calls[c].value = 1
       /\ calls[c].pc = "done" /\ calls[c].patch.onOff = {"on"}
  /\ \E c \in Calls :
       /\ calls[c].op = "getOnCharacteristicHandler" /\ calls[c].pc = "done"
       /\ calls[c].fetches = 1 /\ calls[c].cbValue = {TRUE}

\* --------------------------------------------------------------------- C17
\* a handler issued its own fetchDevice call, which resolved and was applied:
\* the cache was fresh when the handler called back
FetchedAndApplied(c) ==
  /\ IsReader(c) /\ calls[c].pc = "done"
  /\ calls[c].fetches = 1 /\ ~calls[c].staleAtCallback

\* C17: snapshots are applied in the order their fetches were issued: the
\* snapshot of the constructor's fetch, the first one issued, never overwrites
\* cached values written from a fetch a handler issued later.
C17_SnapshotsAppliedInIssueOrder ==
  [][(\E s \in Snapshots : CtorFetchSettled(TRUE, s)) /\ (\E c \in Calls : FetchedAndApplied(c))
       => [state' EXCEPT !.validUntil = 0] = [state EXCEPT !.validUntil = 0]
    ]_vars

\* --------------------------------------------------------------------- C18
\* C18: every invocation of the target-mode write handler that has run to its
\* end, on any path (off patch, auto patch, acknowledged no-op, failed
\* updateDevice, queued behind another caller's refresh), has invoked its
\* callback exactly once, and none has invoked it twice.
C18_ModeSetCallsBackOnce ==
  \A c \in Calls :
    calls[c].op = ModeSet =>
      /\ calls[c].cbCount <= 1
      /\ calls[c].pc \in {"done", "rejected"} => calls[c].cbCount = 1

\* --------------------------------------------------------------------- C19
\* C19: validUntil starts at 0, never decreases, is at most the current epoch
\* second plus 10 in every state, and changes only in a step in which a
\* fetchDevice call resolved.
C19_ValidUntilMonotone ==
  /\ state.validUntil = 0
  /\ [][/\ state'.validUntil >= state.validUntil
        /\ state'.validUntil <= now' + 10
        /\ state'.validUntil # state.validUntil => \E s \in Snapshots : Refreshed(s)
       ]_vars

\* after a refresh at second 1 expired, a later refresh moved validUntil on, and
\* a fetch has failed without touching it
C19_Witness ==
  /\ now > 1 /\ state.validUntil = now + 10
  /\ \E c \in Calls : IsReader(c) /\ calls[c].waitedOn = "failed"

====
